---- MODULE Spec2Model ----
(***************************************************************************)
(* A model of doxxo, the documentation generator: path resolution          *)
(* (Doxxo.cleanPaths, Doxxo.resolveSources), the parsers, and the          *)
(* document() pipeline (parseSources, copyLayoutAssets, write).            *)
(*                                                                         *)
(* Strings are modelled as sequences of one-character strings, so that     *)
(* substr, extname, join and the common-directory computation are carried  *)
(* out character by character, as the code does.                           *)
(***************************************************************************)
EXTENDS Naturals, Sequences, FiniteSets, TLC

(***************************************************************************)
(* String primitives (JavaScript String.prototype)                         *)
(***************************************************************************)

\* s.substr(0, n)
Take(s, n) == IF n >= Len(s) THEN s ELSE SubSeq(s, 1, n)

\* s.substr(n)
Drop(s, n) == IF n >= Len(s) THEN <<>> ELSE SubSeq(s, n + 1, Len(s))

RECURSIVE Split(_, _)
\* s.split(c) for a one-character separator c
Split(s, c) ==
    IF \A i \in 1..Len(s) : s[i] # c THEN <<s>>
    ELSE LET k == CHOOSE i \in 1..Len(s) : s[i] = c /\ \A j \in 1..(i - 1) : s[j] # c
         IN  <<Take(s, k - 1)>> \o Split(Drop(s, k), c)

RECURSIVE JoinWith(_, _)
\* parts.join(c)
JoinWith(parts, c) ==
    IF parts = <<>> THEN <<>>
    ELSE IF Len(parts) = 1 THEN parts[1]
    ELSE parts[1] \o <<c>> \o JoinWith(Tail(parts), c)

(***************************************************************************)
(* Node's posix path module                                                *)
(***************************************************************************)

isAbsolute(p) == Len(p) > 0 /\ p[1] = "/"

RECURSIVE normalizeArray(_, _, _)
\* normalizeArray(parts, allowAboveRoot), accumulated in res
normalizeArray(parts, allowAboveRoot, res) ==
    IF parts = <<>> THEN res
    ELSE LET p == Head(parts) IN
         IF p = <<>> \/ p = <<".">>
         THEN normalizeArray(Tail(parts), allowAboveRoot, res)
         ELSE IF p = <<".", ".">>
         THEN IF Len(res) > 0 /\ res[Len(res)] # <<".", ".">>
              THEN normalizeArray(Tail(parts), allowAboveRoot, SubSeq(res, 1, Len(res) - 1))
              ELSE IF allowAboveRoot
              THEN normalizeArray(Tail(parts), allowAboveRoot, Append(res, p))
              ELSE normalizeArray(Tail(parts), allowAboveRoot, res)
         ELSE normalizeArray(Tail(parts), allowAboveRoot, Append(res, p))

\* path.normalize(p)
normalize(p) ==
    LET abs      == isAbsolute(p)
        trailing == Len(p) > 0 /\ p[Len(p)] = "/"
        body     == JoinWith(normalizeArray(Split(p, "/"), ~abs, <<>>), "/")
        body1    == IF body = <<>> /\ ~abs THEN <<".">> ELSE body
        body2    == IF body1 # <<>> /\ trailing THEN body1 \o <<"/">> ELSE body1
    IN  (IF abs THEN <<"/">> ELSE <<>>) \o body2

\* path.join(a, b)
join(a, b) ==
    normalize(IF a = <<>> THEN b ELSE IF b = <<>> THEN a ELSE a \o <<"/">> \o b)

\* path.resolve(base, p) for an absolute base
resolveFrom(base, p) ==
    LET full == IF isAbsolute(p) THEN p
                ELSE IF p = <<>> THEN base ELSE base \o <<"/">> \o p
    IN  <<"/">> \o JoinWith(normalizeArray(Split(full, "/"), FALSE, <<>>), "/")

\* the non-empty segments of p
Segments(p) == SelectSeq(Split(p, "/"), LAMBDA s : s # <<>>)

\* path.basename(p)
basename(p) ==
    LET segs == Segments(p) IN IF segs = <<>> THEN <<>> ELSE segs[Len(segs)]

\* path.extname(p)
extname(p) ==
    LET b    == basename(p)
        dots == {i \in 1..Len(b) : b[i] = "."}
    IN  IF dots = {} \/ b = <<".", ".">> THEN <<>>
        ELSE LET k == CHOOSE i \in dots : \A j \in dots : j <= i
             IN  IF k = 1 THEN <<>> ELSE Drop(b, k - 1)

\* path.dirname(p)
dirname(p) ==
    LET segs == Segments(p)
        dir  == JoinWith(SubSeq(segs, 1, Len(segs) - 1), "/")
    IN  IF isAbsolute(p) THEN <<"/">> \o dir
        ELSE IF dir = <<>> THEN <<".">> ELSE dir

(***************************************************************************)
(* The file system the run sees.  The working directory is /w; it holds    *)
(*     a.js  .a.js  r.md  n.js  t.txt  k.byType  d/  e/                     *)
(*     d/b.js  d/b.md  d/index.js  d/s/   d/s/b.js     (e/ is empty)        *)
(***************************************************************************)

cwd == <<"/", "w">>

F_a_js     == <<"a", ".", "j", "s">>
F_dot_a_js == <<".", "a", ".", "j", "s">>
F_r_md     == <<"r", ".", "m", "d">>
F_n_js     == <<"n", ".", "j", "s">>
F_t_txt    == <<"t", ".", "t", "x", "t">>
F_k_byType == <<"k", ".", "b", "y", "T", "y", "p", "e">>
F_b_js     == <<"b", ".", "j", "s">>
F_b_md     == <<"b", ".", "m", "d">>
F_index_js == <<"i", "n", "d", "e", "x", ".", "j", "s">>
D_d        == <<"d">>
D_s        == <<"s">>
D_e        == <<"e">>

\* fs.readdirSync(dir): the names in a directory, in the order the system lists them
DirListing ==
    [p \in {cwd, cwd \o <<"/">> \o D_d, cwd \o <<"/">> \o D_d \o <<"/">> \o D_s,
            cwd \o <<"/">> \o D_e} |->
        IF p = cwd THEN <<F_dot_a_js, F_a_js, D_d, D_e, F_k_byType, F_n_js, F_r_md, F_t_txt>>
        ELSE IF p = cwd \o <<"/">> \o D_d THEN <<F_b_js, F_b_md, F_index_js, D_s>>
        ELSE IF p = cwd \o <<"/">> \o D_d \o <<"/">> \o D_s THEN <<F_b_js>>
        ELSE <<>>]

FsDirs == DOMAIN DirListing

FsFiles ==
    {d \o <<"/">> \o DirListing[d][i] : <<d, i>> \in
        {<<d, i>> \in FsDirs \X (1..8) : i <= Len(DirListing[d])}} \ FsDirs

\* fs.statSync(fpath): "file", "dir", or "none" when the call throws ENOENT
statSync(fpath) ==
    IF fpath \in FsDirs THEN "dir" ELSE IF fpath \in FsFiles THEN "file" ELSE "none"

readdirSync(fpath) == DirListing[fpath]

\* path.resolve(p), relative to the working directory
resolve(p) == resolveFrom(cwd, p)

(***************************************************************************)
(* Doxxo.cleanPaths: the map from absolute path to display name.  A        *)
(* JavaScript object keeps its keys in insertion order and an assignment   *)
(* to an existing key keeps the key's position, so the map is a sequence   *)
(* of [full, name] pairs.                                                  *)
(***************************************************************************)

\* MemoPut keeping the name a file got first
MemoPutKeepFirst(memo, fpath, src) ==
    IF \E i \in 1..Len(memo) : memo[i].full = fpath THEN memo
    ELSE Append(memo, [full |-> fpath, name |-> src])

\* memo[fpath] = src
MemoPut(memo, fpath, src) ==
    IF \E i \in 1..Len(memo) : memo[i].full = fpath
    THEN [i \in 1..Len(memo) |->
            IF memo[i].full = fpath THEN [full |-> fpath, name |-> src] ELSE memo[i]]
    ELSE Append(memo, [full |-> fpath, name |-> src])

RECURSIVE StripSlashes(_)
\* while (src[0] === "/") src = src.substr(1)
StripSlashes(src) ==
    IF Len(src) > 0 /\ src[1] = "/" THEN StripSlashes(Drop(src, 1)) ELSE src

\* the display name of a file: lines 222-227.  strip is <<>> when the
\* argument is null (the first run) and <<s>> when it is the string s.
fileName(src, strip) ==
    IF strip = <<>> THEN basename(src)
    ELSE IF Take(src, Len(strip[1])) = strip[1]
         THEN StripSlashes(Drop(src, Len(strip[1])))
         ELSE src

RECURSIVE cleanPathsLenient(_, _, _, _)
\* cleanPaths skipping a path that does not exist
cleanPathsLenient(paths, deep, strip, out) ==
    IF paths = <<>> THEN [err |-> FALSE, memo |-> out]
    ELSE LET src   == normalize(Head(paths))
             fpath == resolve(src)
             stat  == statSync(fpath)
         IN  IF stat = "file"
             THEN cleanPathsLenient(Tail(paths), deep, strip,
                                    MemoPut(out, fpath, fileName(src, strip)))
             ELSE IF stat = "dir" /\ (strip = <<>> \/ deep)
             THEN LET ls == readdirSync(fpath)
                  IN  cleanPathsLenient(Tail(paths), deep, strip,
                          cleanPathsLenient([i \in 1..Len(ls) |-> join(src, ls[i])], deep,
                                            IF strip # <<>> THEN strip ELSE <<src>>, out).memo)
             ELSE cleanPathsLenient(Tail(paths), deep, strip, out)

RECURSIVE cleanPathsFlagOnly(_, _, _, _)
\* cleanPaths entering a directory only when deep is set
cleanPathsFlagOnly(paths, deep, strip, out) ==
    IF paths = <<>> THEN [err |-> FALSE, memo |-> out]
    ELSE LET src   == normalize(Head(paths))
             fpath == resolve(src)
             stat  == statSync(fpath)
         IN  IF stat = "none" THEN [err |-> TRUE, memo |-> out]
             ELSE IF stat = "file"
             THEN cleanPathsFlagOnly(Tail(paths), deep, strip,
                                     MemoPut(out, fpath, fileName(src, strip)))
             ELSE IF deep
             THEN LET ls    == readdirSync(fpath)
                      below == cleanPathsFlagOnly([i \in 1..Len(ls) |-> join(src, ls[i])], deep,
                                                  IF strip # <<>> THEN strip ELSE <<src>>, out)
                  IN  IF below.err THEN below
                      ELSE cleanPathsFlagOnly(Tail(paths), deep, strip, below.memo)
             ELSE cleanPathsFlagOnly(Tail(paths), deep, strip, out)

RECURSIVE cleanPaths(_, _, _, _)
\* Doxxo.cleanPaths(paths, deep, strip, out); err is set when statSync throws
cleanPaths(paths, deep, strip, out) ==
    IF paths = <<>> THEN [err |-> FALSE, memo |-> out]
    ELSE LET firstRun == strip = <<>>
             src      == normalize(Head(paths))
             fpath    == resolve(src)
             stat     == statSync(fpath)
         IN  IF stat = "none" THEN [err |-> TRUE, memo |-> out]
             ELSE IF stat = "file"
             THEN cleanPaths(Tail(paths), deep, strip,
                             MemoPut(out, fpath, fileName(src, strip)))
             ELSE IF firstRun \/ deep
             THEN LET ls    == readdirSync(fpath)
                      below == cleanPaths([i \in 1..Len(ls) |-> join(src, ls[i])], deep,
                                          IF strip # <<>> THEN strip ELSE <<src>>, out)
                  IN  IF below.err THEN below
                      ELSE cleanPaths(Tail(paths), deep, strip, below.memo)
             ELSE cleanPaths(Tail(paths), deep, strip, out)

(***************************************************************************)
(* commondir(basedir, relfiles), the npm module the code calls: the        *)
(* longest common run of path segments of the resolved files.  For one     *)
(* file, or for files that are all the same path, that is the whole path.  *)
(***************************************************************************)

RECURSIVE CommonPrefixLen(_, _, _)
\* for (i = 0; ps[i] === xs[i] && i < min(ps.length, xs.length); i++)
CommonPrefixLen(ps, xs, i) ==
    IF i < Len(ps) /\ i < Len(xs) /\ ps[i + 1] = xs[i + 1]
    THEN CommonPrefixLen(ps, xs, i + 1) ELSE i

RECURSIVE CommonSegs(_, _)
CommonSegs(ps, files) ==
    IF files = <<>> THEN ps
    ELSE CommonSegs(Take(ps, CommonPrefixLen(ps, Split(Head(files), "/"), 0)), Tail(files))

\* commondir("/", names); names is not empty
commondir(names) ==
    LET files == [i \in 1..Len(names) |-> resolveFrom(<<"/">>, names[i])]
        res   == CommonSegs(Split(files[1], "/"), Tail(files))
    IN  IF Len(res) > 1 THEN JoinWith(res, "/") ELSE <<"/">>

(***************************************************************************)
(* Doxxo.resolveSources                                                    *)
(***************************************************************************)

html == <<".", "h", "t", "m", "l">>

\* opts.output after Doxxo.configure: path.resolve("docs")
output == resolve(<<"d", "o", "c", "s">>)

\* outPath without the index override
outPathNoIndex(fp, src, common, index) ==
    join(output, Drop(Take(src, Len(src) - Len(extname(src))), Len(common)) \o html)

\* the output path of one source: lines 197-203.  index is <<>> for null.
outPath(fp, src, common, index) ==
    LET isIndex == index # <<>> /\ fp = index[1]
        outpath == IF isIndex THEN <<"i", "n", "d", "e", "x">>
                   ELSE Drop(Take(src, Len(src) - Len(extname(src))), Len(common))
    IN  join(output, outpath \o html)

\* the source objects of a non-empty map
sourceObjects(memo, index) ==
    LET common == Drop(commondir([i \in 1..Len(memo) |-> memo[i].name]), 1)
    IN  [i \in 1..Len(memo) |->
            [full    |-> memo[i].full,
             out     |-> outPath(memo[i].full, memo[i].name, common, index),
             name    |-> memo[i].name,
             isIndex |-> index # <<>> /\ memo[i].full = index[1]]]

\* Doxxo.resolveSources(paths, opts): the list, or the error thrown
resolveSources(paths, deep, index) ==
    LET cp == cleanPaths(paths, deep, <<>>, <<>>)
    IN  IF cp.err THEN [err |-> "ENOENT", list |-> <<>>]
        ELSE IF cp.memo = <<>> THEN [err |-> "TypeError", list |-> <<>>]
        ELSE [err |-> "none", list |-> sourceObjects(cp.memo, index)]

(***************************************************************************)
(* File contents: fs.readFileAsync(src.full, "utf-8")                      *)
(***************************************************************************)

NL == "\n"

Content(fp) ==
    LET b == basename(fp)
        d == dirname(fp)
    IN  IF d = cwd /\ b = F_a_js THEN <<"x", NL, "/", "*", "D", "*", "/", NL, "f">>
        ELSE IF d = cwd /\ b = F_dot_a_js THEN <<"/", "*", "*", " ", "E", " ", "*", "/", NL, "g">>
        ELSE IF b = F_r_md THEN <<"#", " ", "T">>
        ELSE IF b = F_n_js THEN <<"f", NL, "g">>
        ELSE IF b = F_t_txt THEN <<"t">>
        ELSE IF b = F_k_byType THEN <<"m", "d">>
        ELSE IF b = F_b_md THEN <<"b">>
        ELSE IF d = cwd \o <<"/">> \o D_d THEN <<"/", "*", "B", "*", "/", NL, NL, "\t", "h">>
        ELSE <<" ", NL, "/", "*", "C", "*", "/">>

(***************************************************************************)
(* dox.parseComments(code, { raw: true }), the npm module the code calls:  *)
(* the block comments of the text, each with the line it starts on and the *)
(* line its code starts on.                                                *)
(***************************************************************************)

IsSpace(c) == c \in {" ", NL, "\t"}

RECURSIVE TrimLeft(_)
TrimLeft(s) == IF Len(s) > 0 /\ IsSpace(s[1]) THEN TrimLeft(Tail(s)) ELSE s

RECURSIVE TrimRight(_)
TrimRight(s) ==
    IF Len(s) > 0 /\ IsSpace(s[Len(s)]) THEN TrimRight(SubSeq(s, 1, Len(s) - 1)) ELSE s

\* s.trim()
Trim(s) == TrimRight(TrimLeft(s))

\* the number of newlines in the leading white space of buf
LeadingNewlines(buf) ==
    LET lead == Len(buf) - Len(TrimLeft(buf))
    IN  Cardinality({i \in 1..lead : buf[i] = NL})

RECURSIVE SkipBlanks(_)
SkipBlanks(s) == IF Len(s) > 0 /\ s[1] \in {" ", "\t"} THEN SkipBlanks(Tail(s)) ELSE s

\* one line of buf.replace(/^[ \t]*\* ?/gm, '')
StripStar(line) ==
    LET r == SkipBlanks(line)
    IN  IF Len(r) > 0 /\ r[1] = "*"
        THEN IF Len(r) > 1 /\ r[2] = " " THEN Drop(r, 2) ELSE Drop(r, 1)
        ELSE line

StripStars(buf) ==
    LET ls == Split(buf, NL)
    IN  JoinWith([i \in 1..Len(ls) |-> StripStar(ls[i])], NL)

\* the code that follows the last comment starts after its leading blank lines
AdjustLast(comments, buf) ==
    IF Trim(buf) # <<>> /\ comments # <<>>
    THEN [comments EXCEPT ![Len(comments)].codeStart = @ + LeadingNewlines(buf)]
    ELSE comments

CharAt(js, i) == IF i >= 1 /\ i <= Len(js) THEN js[i] ELSE "none"

RECURSIVE DoxScan(_, _, _, _, _, _, _)
\* the scanning loop: i the position, lineNum the current line, lineStart the
\* line the open comment started on, within whether a comment is open
DoxScan(js, i, lineNum, lineStart, within, buf, comments) ==
    IF i > Len(js) THEN AdjustLast(comments, buf)
    ELSE IF ~within /\ js[i] = "/" /\ CharAt(js, i + 1) = "*"
    THEN LET j  == i + 2
             k  == IF CharAt(js, j) \in {" ", NL, "\t", "!"} THEN j ELSE j - 1
             ln == IF CharAt(js, k) = NL THEN lineNum + 1 ELSE lineNum
         IN  DoxScan(js, k + 1, ln, lineNum, TRUE,
                     IF Trim(buf) # <<>> THEN <<>> ELSE buf, AdjustLast(comments, buf))
    ELSE IF within /\ js[i] = "*" /\ CharAt(js, i + 1) = "/"
    THEN LET j  == i + 2
             ln == IF CharAt(js, j) = NL THEN lineNum + 1 ELSE lineNum
             c  == [full |-> Trim(StripStars(buf)), line |-> lineStart,
                    codeStart |-> lineNum + 1]
         IN  DoxScan(js, j + 1, ln, lineStart, FALSE, <<>>, Append(comments, c))
    ELSE DoxScan(js, i + 1, IF js[i] = NL THEN lineNum + 1 ELSE lineNum, lineStart,
                 within, Append(buf, js[i]), comments)

parseComments(code) == DoxScan(code, 1, 1, 1, FALSE, <<>>, <<>>)

(***************************************************************************)
(* Doxxo.parsers and Doxxo.parse                                           *)
(***************************************************************************)

RECURSIVE LeadingTabs(_)
LeadingTabs(line) == IF Len(line) > 0 /\ line[1] = "\t" THEN 1 + LeadingTabs(Tail(line)) ELSE 0

\* line.replace(/^\t+/, m => "    " repeated m.length times)
untab(line) ==
    LET n == LeadingTabs(line)
    IN  [i \in 1..(4 * n) |-> " "] \o Drop(line, n)

\* lines.slice(from, to), both counted from zero
Slice(lines, from, to) ==
    IF from >= to \/ from >= Len(lines) THEN <<>>
    ELSE SubSeq(lines, from + 1, IF to > Len(lines) THEN Len(lines) ELSE to)

Section(docs, code) == [docsText |-> docs, codeText |-> code]

\* parsers.js returning the whole text as one section when there is no comment
parsers_jsWholeFile(code) ==
    LET comments   == parseComments(code)
        lines      == Split(code, NL)
        first      == JoinWith(Slice(lines, 0, comments[1].line - 1), NL)
        lead       == IF Trim(first) # <<>> THEN <<Section(<<>>, first)>> ELSE <<>>
        codeEnd(i) == IF i < Len(comments) THEN comments[i + 1].line - 1 ELSE Len(lines)
        codeOf(i)  == LET ls == Slice(lines, comments[i].codeStart - 1, codeEnd(i))
                      IN  JoinWith([k \in 1..Len(ls) |-> untab(ls[k])], NL)
    IN  IF comments = <<>> THEN <<Section(<<>>, code)>>
        ELSE lead \o [i \in 1..Len(comments) |-> Section(comments[i].full, codeOf(i))]

\* parsers.js taking the code of every comment up to the end of the file
parsers_jsToEnd(code) ==
    LET comments   == parseComments(code)
        lines      == Split(code, NL)
        first      == JoinWith(Slice(lines, 0, comments[1].line - 1), NL)
        lead       == IF Trim(first) # <<>> THEN <<Section(<<>>, first)>> ELSE <<>>
        codeOf(i)  == LET ls == Slice(lines, comments[i].codeStart - 1, Len(lines))
                      IN  JoinWith([k \in 1..Len(ls) |-> untab(ls[k])], NL)
    IN  IF comments = <<>> THEN <<>>
        ELSE lead \o [i \in 1..Len(comments) |-> Section(comments[i].full, codeOf(i))]

\* parsers.js always starting with the leading section
parsers_jsAlwaysLead(code) ==
    LET comments   == parseComments(code)
        lines      == Split(code, NL)
        first      == JoinWith(Slice(lines, 0, comments[1].line - 1), NL)
        codeEnd(i) == IF i < Len(comments) THEN comments[i + 1].line - 1 ELSE Len(lines)
        codeOf(i)  == LET ls == Slice(lines, comments[i].codeStart - 1, codeEnd(i))
                      IN  JoinWith([k \in 1..Len(ls) |-> untab(ls[k])], NL)
    IN  IF comments = <<>> THEN <<>>
        ELSE <<Section(<<>>, first)>>
             \o [i \in 1..Len(comments) |-> Section(comments[i].full, codeOf(i))]

\* Doxxo.parsers.js
parsers_js(code) ==
    LET comments     == parseComments(code)
        lines        == Split(code, NL)
        firstSection == JoinWith(Slice(lines, 0, comments[1].line - 1), NL)
        lead         == IF Trim(firstSection) # <<>>
                        THEN <<Section(<<>>, firstSection)>> ELSE <<>>
        codeEnd(i)   == IF i < Len(comments) THEN comments[i + 1].line - 1 ELSE Len(lines)
        codeOf(i)    == LET ls == Slice(lines, comments[i].codeStart - 1, codeEnd(i))
                        IN  JoinWith([k \in 1..Len(ls) |-> untab(ls[k])], NL)
    IN  IF comments = <<>> THEN <<>>
        ELSE lead \o [i \in 1..Len(comments) |-> Section(comments[i].full, codeOf(i))]

\* parsers.md trimming the text
parsers_mdTrimmed(code) == <<Section(Trim(code), <<>>)>>

\* Doxxo.parsers.md
parsers_md(code) == <<Section(code, <<>>)>>

T_js     == <<"j", "s">>
T_md     == <<"m", "d">>
T_byType == <<"b", "y", "T", "y", "p", "e">>

\* Doxxo.parsers.byType(type): the name of the property found, "null" otherwise
parsers_byType(type) ==
    LET t == IF Len(type) > 0 /\ type[1] = "." THEN Drop(type, 1) ELSE type
    IN  IF t = T_js THEN "js" ELSE IF t = T_md THEN "md"
        ELSE IF t = T_byType THEN "byType" ELSE "null"

\* what a parse returns: an array of sections, null, or a function
ArrayVal(items) == [kind |-> "array",    items |-> items, fn |-> "none"]
NullVal         == [kind |-> "null",     items |-> <<>>,  fn |-> "none"]
FunVal(f)       == [kind |-> "function", items |-> <<>>,  fn |-> f]
Unset           == [kind |-> "unset",    items |-> <<>>,  fn |-> "none"]

\* Doxxo.parse(code, type)
parse(code, type) ==
    LET parser == parsers_byType(type)
    IN  IF parser = "js" THEN ArrayVal(parsers_js(code))
        ELSE IF parser = "md" THEN ArrayVal(parsers_md(code))
        ELSE IF parser = "byType"
        THEN LET f == parsers_byType(code)
             IN  IF f = "null" THEN NullVal ELSE FunVal(f)
        ELSE ArrayVal(<<>>)

\* sections && sections.length, as a condition (each parser takes one argument)
keepSource(sections) ==
    IF sections.kind = "array" THEN Len(sections.items) > 0
    ELSE sections.kind = "function"

(***************************************************************************)
(* marked.lexer(src)[0], the npm module format() calls: the first block    *)
(* token of a markdown text, under marked's default (gfm) block rules, in  *)
(* the order the lexer tries them.  Texts here hold no fence, table,       *)
(* quote, list, html or link definition.                                   *)
(***************************************************************************)

RECURSIVE LeadingCount(_, _)
\* the number of characters of C that s begins with
LeadingCount(s, C) == IF Len(s) > 0 /\ s[1] \in C THEN 1 + LeadingCount(Tail(s), C) ELSE 0

RECURSIVE ExpandTabs(_)
\* src.replace(/\t/g, '    ')
ExpandTabs(s) ==
    IF s = <<>> THEN <<>>
    ELSE (IF s[1] = "\t" THEN <<" ", " ", " ", " ">> ELSE <<s[1]>>) \o ExpandTabs(Tail(s))

\* src.replace(/^ +$/gm, '')
BlankSpaceLines(s) ==
    LET ls == Split(s, NL)
    IN  JoinWith([i \in 1..Len(ls) |->
                    IF \A k \in 1..Len(ls[i]) : ls[i][k] = " " THEN <<>> ELSE ls[i]], NL)

\* whether s matches / *#* *$/
HeadingTail(s) ==
    \E a, b \in 0..Len(s) :
        /\ a + b <= Len(s)
        /\ \A i \in 1..Len(s) :
              s[i] = (IF i > a /\ i <= a + b THEN "#" ELSE " ")

\* the text of /^ *(#{1,6}) +([^\n]+?) *#* *(?:\n+|$)/ on a line, <<>> when
\* the line is no such heading, <<text>> otherwise
HeadingText(line) ==
    LET r      == Drop(line, LeadingCount(line, {" "}))
        h      == LeadingCount(r, {"#"})
        after  == Drop(r, h)
        sp     == LeadingCount(after, {" "})
        body   == Drop(after, sp)
        cut    == CHOOSE k \in 1..Len(body) :
                      /\ HeadingTail(Drop(body, k))
                      /\ \A j \in 1..(k - 1) : ~HeadingTail(Drop(body, j))
    IN  IF h < 1 \/ h > 6 \/ sp < 1 THEN <<>>
        ELSE IF body = <<>> THEN (IF sp >= 2 THEN << <<" ">> >> ELSE <<>>)
        ELSE <<Take(body, cut)>>

\* whether a line matches /^ *(=|-){2,} *$/
Underline(line) ==
    LET u == Drop(line, LeadingCount(line, {" "}))
        n == LeadingCount(u, {"=", "-"})
    IN  n >= 2 /\ \A i \in (n + 1)..Len(u) : u[i] = " "

\* whether a line matches /^( *[-*_]){3,} *$/
Rule(line) ==
    /\ \A i \in 1..Len(line) : line[i] \in {" ", "-", "*", "_"}
    /\ Cardinality({i \in 1..Len(line) : line[i] # " "}) >= 3

Token(t, d, x) == [type |-> t, depth |-> d, text |-> x]

\* the value of tokens[0] when the lexer produced no token
NoToken == Token("undefined", 0, <<>>)

\* marked.lexer(src)[0]
lexer(src0) ==
    LET src   == BlankSpaceLines(ExpandTabs(src0))
        n     == LeadingCount(src, {NL})
        rest  == Drop(src, n)
        lines == Split(rest, NL)
        l1    == lines[1]
        u     == Drop(lines[2], LeadingCount(lines[2], {" "}))
    IN  IF n > 1 THEN Token("space", 0, <<>>)
        ELSE IF rest = <<>> THEN NoToken
        ELSE IF LeadingCount(l1, {" "}) >= 4 THEN Token("code", 0, <<>>)
        ELSE IF HeadingText(l1) # <<>>
        THEN Token("heading", LeadingCount(Drop(l1, LeadingCount(l1, {" "})), {"#"}),
                   HeadingText(l1)[1])
        ELSE IF Len(lines) >= 2 /\ Underline(lines[2])
        THEN Token("heading",
                   IF u[LeadingCount(u, {"=", "-"})] = "=" THEN 1 ELSE 2, l1)
        ELSE IF Rule(l1) THEN Token("hr", 0, <<>>)
        ELSE Token("paragraph", 0, <<>>)

(***************************************************************************)
(* Doxxo.prototype.format: the title and the hasTitle flag handed to the   *)
(* template.  hasTitle is the value of first && ... && ...: "true",        *)
(* "false", or "undefined" when there is no first token.                   *)
(***************************************************************************)

\* format taking the title from the first section, with or without text
formatFirstSection(name, secs) ==
    LET first == IF secs # <<>> /\ secs[1].docsText # <<>>
                 THEN lexer(secs[1].docsText) ELSE NoToken
        hasTitle == IF first = NoToken THEN "undefined"
                    ELSE IF first.type = "heading" /\ first.depth = 1 THEN "true" ELSE "false"
    IN  [source |-> name, title |-> IF hasTitle = "true" THEN first.text ELSE name,
         hasTitle |-> hasTitle]

\* format(source) for a source with the display name name and the sections secs
format(name, secs) ==
    LET withDocs == SelectSeq(secs, LAMBDA sec : Len(sec.docsText) > 0)
        first    == IF withDocs # <<>> THEN lexer(withDocs[1].docsText) ELSE NoToken
        hasTitle == IF first = NoToken THEN "undefined"
                    ELSE IF first.type = "heading" /\ first.depth = 1 THEN "true" ELSE "false"
    IN  [source |-> name, title |-> IF hasTitle = "true" THEN first.text ELSE name,
         hasTitle |-> hasTitle]

(***************************************************************************)
(* One run of the entry point Doxxo(paths, opts, callback)                 *)
(***************************************************************************)

VARIABLES
    paths,         \* the paths argument
    recursive,     \* opts.recursive
    index,         \* opts.index resolved: <<>> for null, <<path>> otherwise
    assets,        \* opts.assets
    pc,            \* where the run is
    entries,       \* the source objects made by the constructor
    sections,      \* sections[i]: the sections property of entries[i]
    sources,       \* this.sources, as positions in entries
    rd,            \* rd[i]: the state of the filter for entries[i]
    widx,          \* the position in sources of the entry being written
    dirs,          \* the directories created under the output directory
    files,         \* the files written: output path -> position of the entry
    assetsCopied,  \* whether the layout's public folder was copied
    log,           \* what opts.log was called with
    err,           \* the error the run failed with
    outcome,       \* "none", "thrown", "fulfilled" or "rejected"
    callbacks,     \* how many times the callback was called
    code,          \* Doxxo.parse: the code argument
    type,          \* Doxxo.parse: the type argument
    parsed,        \* what Doxxo.parse returned
    page,          \* what format() handed to the template
    args,          \* legacy document(): options.args
    queue,         \* legacy document(): the files still to process
    lpc,           \* legacy document(): where the run is
    written,       \* legacy document(): the sources written, in order
    calls,         \* legacy document(): what the callback was called with
    source,        \* legacy document(): the file being read
    failure,       \* legacy document(): the first step that failed
    uncaught       \* legacy document(): the exception nothing caught

\* the variables of a call of Doxxo.parse and format
parseVars == <<code, type, parsed, page>>

\* the variables of a run of the legacy document()
legacyVars == <<args, queue, source, lpc, written, calls, failure, uncaught>>

vars == <<paths, recursive, index, assets, pc, entries, sections, sources, rd, widx,
          dirs, files, assetsCopied, log, err, outcome, callbacks, parseVars, legacyVars>>

\* format() was not called
NoPage == [source |-> <<>>, title |-> <<>>, hasTitle |-> "none"]

\* no call of Doxxo.parse is under way
ParseIdle == code = <<>> /\ type = <<>> /\ parsed = Unset /\ page = NoPage

\* no run of the legacy document() is under way
LegacyIdle ==
    /\ args = <<>> /\ queue = <<>> /\ source = <<>> /\ lpc = "idle" /\ written = <<>>
    /\ calls = <<>> /\ failure = "none" /\ uncaught = "none"

\* the longest paths argument
MaxPaths == 2

Missing == <<"z">>

InputPaths ==
    {F_a_js, F_r_md, F_n_js, F_t_txt, F_k_byType, D_d, D_d \o <<"/">> \o D_s \o <<"/">> \o F_b_js,
     <<".">>, D_e, Missing}

RECURSIVE SeqsUpTo(_, _)
SeqsUpTo(S, n) ==
    IF n = 0 THEN {<<>>}
    ELSE LET shorter == SeqsUpTo(S, n - 1)
         IN  shorter \cup {Append(q, x) : <<q, x>> \in shorter \X S}

\* the state before the entry point is called with a paths argument over From
InitOver(From) ==
    /\ paths \in SeqsUpTo(From, MaxPaths)
    /\ recursive \in BOOLEAN
    /\ index \in {<<>>, <<resolve(F_r_md)>>}
    /\ assets \in BOOLEAN
    /\ pc = "start"
    /\ entries = <<>>
    /\ sections = <<>>
    /\ sources = <<>>
    /\ rd = <<>>
    /\ widx = 0
    /\ dirs = {}
    /\ files = {}
    /\ assetsCopied = FALSE
    /\ log = <<>>
    /\ err = "none"
    /\ outcome = "none"
    /\ callbacks = 0
    /\ ParseIdle
    /\ LegacyIdle

\* a run of Doxxo(paths, opts, callback)
Init == InitOver(InputPaths \ {<<".">>})

\* a call of new Doxxo(paths, opts)
InitNew == InitOver(InputPaths)

\* the run's promise is rejected with e, and nodeify calls the callback
Reject(e) ==
    /\ pc' = "end"
    /\ err' = e
    /\ outcome' = "rejected"
    /\ callbacks' = callbacks + 1

\* the run's promise is fulfilled, and nodeify calls the callback
Fulfil ==
    /\ pc' = "end"
    /\ err' = err
    /\ outcome' = "fulfilled"
    /\ callbacks' = callbacks + 1

\* the constructor throws e
Throw(e) ==
    /\ pc' = "end"
    /\ err' = e
    /\ outcome' = "thrown"
    /\ callbacks' = callbacks

(***************************************************************************)
(* new Doxxo(paths, opts) followed by the call of document(callback).      *)
(* cfg is what Doxxo.configure finds: a valid layout and template, or not. *)
(***************************************************************************)
Constructor(then) ==
    /\ pc = "start"
    /\ \E cfg \in {"ok", "badLayout", "noTemplate"} :
        LET r == resolveSources(paths, recursive, index)
        IN  IF cfg = "badLayout" THEN Throw("InvalidLayout") /\ UNCHANGED <<entries, sections, sources, rd>>
            ELSE IF cfg = "noTemplate" THEN Throw("MissingTemplate") /\ UNCHANGED <<entries, sections, sources, rd>>
            ELSE IF r.err # "none" THEN Throw(r.err) /\ UNCHANGED <<entries, sections, sources, rd>>
            ELSE IF r.list = <<>> THEN Throw("NoValidSources") /\ UNCHANGED <<entries, sections, sources, rd>>
            ELSE /\ entries' = r.list
                 /\ sections' = [i \in 1..Len(r.list) |-> Unset]
                 /\ sources' = [i \in 1..Len(r.list) |-> i]
                 /\ rd' = [i \in 1..Len(r.list) |-> "idle"]
                 /\ pc' = then
                 /\ UNCHANGED <<err, outcome, callbacks>>
    /\ UNCHANGED <<parseVars, legacyVars, paths, recursive, index, assets, widx, dirs, files, assetsCopied, log>>

\* Doxxo(paths, opts, callback): the object is made and document() is called
Construct == Constructor("filter")

\* new Doxxo(paths, opts): the object is made, and document() is left to the caller
New == Constructor("constructed")

\* the filter callback's first test: line 371
supported(i) == parsers_byType(extname(entries[i].full)) # "null"

(***************************************************************************)
(* parseSources: the filter callback is called for every source in turn;   *)
(* an unsupported file is logged and dropped, a read is started for every  *)
(* other one.                                                              *)
(***************************************************************************)
FilterStart ==
    /\ pc = "filter"
    /\ \A i \in 1..Len(rd) : rd[i] = "idle"
    /\ rd' = [i \in 1..Len(rd) |-> IF supported(sources[i]) THEN "reading" ELSE "dropped"]
    /\ log' = log \o [k \in 1..Len(SelectSeq(sources, LAMBDA i : ~supported(i))) |->
                        <<"ignored", SelectSeq(sources, LAMBDA i : ~supported(i))[k]>>]
    /\ UNCHANGED <<parseVars, legacyVars, paths, recursive, index, assets, pc, entries, sections, sources, widx,
                   dirs, files, assetsCopied, err, outcome, callbacks>>

\* a read completes: the code is parsed and the sections are attached
ReadDone(i) ==
    /\ rd[i] = "reading"
    /\ LET secs == parse(Content(entries[i].full), extname(entries[i].full))
       IN  /\ sections' = [sections EXCEPT ![i] = secs]
           /\ rd' = [rd EXCEPT ![i] = IF keepSource(secs) THEN "kept" ELSE "dropped"]
    /\ UNCHANGED <<parseVars, legacyVars, paths, recursive, index, assets, pc, entries, sources, widx,
                   dirs, files, assetsCopied, log, err, outcome, callbacks>>

\* a read fails: the failure rejects the run (a failure after the run has
\* been rejected changes nothing)
ReadFail(i) ==
    /\ pc = "filter"
    /\ rd[i] = "reading"
    /\ rd' = [rd EXCEPT ![i] = "failed"]
    /\ Reject("EIO")
    /\ UNCHANGED <<parseVars, legacyVars, paths, recursive, index, assets, entries, sections, sources, widx,
                   dirs, files, assetsCopied, log>>

\* FilterDone without the test for an empty list
FilterDoneNoEmptyTest ==
    /\ pc = "filter"
    /\ \A i \in 1..Len(rd) : rd[i] \in {"kept", "dropped"}
    /\ sources' = SelectSeq(sources, LAMBDA i : rd[i] = "kept")
    /\ pc' = "mkroot"
    /\ UNCHANGED <<parseVars, legacyVars, paths, recursive, index, assets, entries, sections, rd, widx,
                   dirs, files, assetsCopied, log, err, outcome, callbacks>>

\* FilterDone replacing this.sources as soon as one read has completed
FilterDoneFirstRead ==
    /\ pc = "filter"
    /\ \E i \in 1..Len(rd) : rd[i] \in {"kept", "dropped"}
    /\ \A i \in 1..Len(rd) : rd[i] # "idle"
    /\ LET kept == SelectSeq(sources, LAMBDA i : rd[i] = "kept")
       IN  /\ sources' = kept
           /\ IF kept = <<>> THEN Fulfil
              ELSE pc' = "mkroot" /\ UNCHANGED <<err, outcome, callbacks>>
    /\ UNCHANGED <<parseVars, legacyVars, paths, recursive, index, assets, entries, sections, rd, widx,
                   dirs, files, assetsCopied, log>>

\* every source is settled: this.sources becomes the filtered list, and
\* document() goes on with it (or stops when it is empty)
FilterDone ==
    /\ pc = "filter"
    /\ \A i \in 1..Len(rd) : rd[i] \in {"kept", "dropped"}
    /\ LET kept == SelectSeq(sources, LAMBDA i : rd[i] = "kept")
       IN  /\ sources' = kept
           /\ IF kept = <<>> THEN Fulfil
              ELSE pc' = "mkroot" /\ UNCHANGED <<err, outcome, callbacks>>
    /\ UNCHANGED <<parseVars, legacyVars, paths, recursive, index, assets, entries, sections, rd, widx,
                   dirs, files, assetsCopied, log>>

RECURSIVE Ancestors(_)
\* the directories mkdirp(p) makes sure exist, from the output directory down
Ancestors(p) ==
    IF Len(p) <= Len(output) THEN {output} ELSE {p} \cup Ancestors(dirname(p))

\* MkRoot going on to the writes without the asset step
MkRootSkipsAssets ==
    /\ pc = "mkroot"
    /\ \E ok \in BOOLEAN :
        IF ok THEN /\ dirs' = dirs \cup {output}
                   /\ pc' = "wmkdir"
                   /\ widx' = 1
                   /\ UNCHANGED <<err, outcome, callbacks>>
        ELSE Reject("EIO") /\ UNCHANGED <<dirs, widx>>
    /\ UNCHANGED <<parseVars, legacyVars, paths, recursive, index, assets, entries, sections, sources, rd,
                   files, assetsCopied, log>>

\* mkdirp(opts.output)
MkRoot ==
    /\ pc = "mkroot"
    /\ \E ok \in BOOLEAN :
        IF ok THEN /\ dirs' = dirs \cup {output}
                   /\ pc' = IF assets THEN "stat" ELSE "wmkdir"
                   /\ widx' = IF assets THEN widx ELSE 1
                   /\ UNCHANGED <<err, outcome, callbacks>>
        ELSE Reject("EIO") /\ UNCHANGED <<dirs, widx>>
    /\ UNCHANGED <<parseVars, legacyVars, paths, recursive, index, assets, entries, sections, sources, rd,
                   files, assetsCopied, log>>

\* copyLayoutAssets: fs.statAsync(layout/public)
StatPublic ==
    /\ pc = "stat"
    /\ \E st \in {"dir", "file", "ENOENT", "EACCES"} :
        IF st = "dir" THEN pc' = "cpr" /\ UNCHANGED <<log, widx, err, outcome, callbacks>>
        ELSE IF st = "EACCES" THEN Reject("EACCES") /\ UNCHANGED <<log, widx>>
        ELSE /\ log' = Append(log, <<"copied">>)
             /\ pc' = "wmkdir"
             /\ widx' = 1
             /\ UNCHANGED <<err, outcome, callbacks>>
    /\ UNCHANGED <<parseVars, legacyVars, paths, recursive, index, assets, entries, sections, sources, rd,
                   dirs, files, assetsCopied>>

\* copyLayoutAssets: cpr(layout/public, output/public)
Cpr ==
    /\ pc = "cpr"
    /\ \E ok \in BOOLEAN :
        IF ok THEN /\ assetsCopied' = TRUE
                   /\ log' = Append(log, <<"copied">>)
                   /\ pc' = "wmkdir"
                   /\ widx' = 1
                   /\ UNCHANGED <<err, outcome, callbacks>>
        ELSE Reject("EIO") /\ UNCHANGED <<assetsCopied, log, widx>>
    /\ UNCHANGED <<parseVars, legacyVars, paths, recursive, index, assets, entries, sections, sources, rd,
                   dirs, files>>

\* the receiver write() is bound to in document(): line 352 binds it to the
\* this of a callback of an unbound promise, which is the global object
writeReceiver == "global"

\* WriteMkdir noting a failure and going on
WriteMkdirGoesOn ==
    /\ pc = "wmkdir"
    /\ \E ok \in BOOLEAN :
        IF ok THEN /\ dirs' = dirs \cup Ancestors(dirname(entries[sources[widx]].out))
                   /\ err' = err
        ELSE err' = "EIO" /\ UNCHANGED dirs
    /\ pc' = "wfile"
    /\ UNCHANGED <<parseVars, legacyVars, paths, recursive, index, assets, entries, sections, sources, rd, widx,
                   files, assetsCopied, log, outcome, callbacks>>

\* write(): mkdirp(path.dirname(src.out))
WriteMkdir ==
    /\ pc = "wmkdir"
    /\ \E ok \in BOOLEAN :
        IF ok THEN /\ dirs' = dirs \cup Ancestors(dirname(entries[sources[widx]].out))
                   /\ pc' = "wfile"
                   /\ UNCHANGED <<err, outcome, callbacks>>
        ELSE Reject("EIO") /\ UNCHANGED dirs
    /\ UNCHANGED <<parseVars, legacyVars, paths, recursive, index, assets, entries, sections, sources, rd, widx,
                   files, assetsCopied, log>>

\* fs.writeFile(path, page): a file of that path is replaced
PutFile(fs, path, i) == {f \in fs : f.path # path} \cup {[path |-> path, from |-> i]}

\* write(): this.format(src) and fs.writeFileAsync(src.out, ...), then the log;
\* Promise.each then goes on to the next source
WriteFile ==
    /\ pc = "wfile"
    /\ LET i == sources[widx]
       IN  IF writeReceiver # "self" \/ sections[i].kind # "array"
           THEN Reject("TypeError") /\ UNCHANGED <<files, log, widx>>
           ELSE \E ok \in BOOLEAN :
                IF ok THEN /\ files' = PutFile(files, entries[i].out, i)
                           /\ log' = Append(log, <<"wrote", i>>)
                           /\ IF widx < Len(sources)
                              THEN /\ widx' = widx + 1
                                   /\ pc' = "wmkdir"
                                   /\ UNCHANGED <<err, outcome, callbacks>>
                              ELSE Fulfil /\ UNCHANGED widx
                ELSE Reject("EIO") /\ UNCHANGED <<files, log, widx>>
    /\ UNCHANGED <<parseVars, legacyVars, paths, recursive, index, assets, entries, sections, sources, rd,
                   dirs, assetsCopied>>

Next ==
    \/ Construct
    \/ FilterStart
    \/ \E i \in 1..Len(rd) : ReadDone(i)
    \/ \E i \in 1..Len(rd) : ReadFail(i)
    \/ FilterDone
    \/ MkRoot
    \/ StatPublic
    \/ Cpr
    \/ WriteMkdir
    \/ WriteFile

Spec == Init /\ [][Next]_vars

NextNew == New

SpecNew == InitNew /\ [][NextNew]_vars

(***************************************************************************)
(* Calls of Doxxo.parse(code, type) and of format() on what it returned.   *)
(* The code is up to MaxLines lines joined by newlines; a line is one of   *)
(* CodeLines (a text holds no // and no quote, which the comment scanner   *)
(* treats specially).                                                      *)
(***************************************************************************)

\* the most lines of a code argument
MaxLines == 3

CodeLines ==
    {<<>>, <<"x">>, <<"\t", "x">>, <<" ">>,
     <<"/", "*", "D", "*", "/">>, <<"/", "*", "*", "/">>,
     <<"x", "/", "*", "D", "*", "/">>, <<"/", "*", "D", "*", "/", "x">>,
     <<"/", "*", "D">>, <<"D", "*", "/">>,
     <<"/", "*", "#", " ", "T", "*", "/">>, <<"#", " ", "T">>, <<"=", "=">>,
     <<"x", "\t", "x">>}

Codes == {JoinWith(ls, NL) : ls \in SeqsUpTo(CodeLines, MaxLines)} \cup {T_js, T_md}

Types ==
    {T_js, <<".">> \o T_js, T_md, <<".">> \o T_md, T_byType, <<".">> \o T_byType,
     <<"t", "x", "t">>, <<>>}

\* no run of the entry point is under way
DocumentIdle ==
    /\ paths = <<>> /\ recursive = FALSE /\ index = <<>> /\ assets = FALSE
    /\ pc = "idle" /\ entries = <<>> /\ sections = <<>> /\ sources = <<>> /\ rd = <<>>
    /\ widx = 0 /\ dirs = {} /\ files = {} /\ assetsCopied = FALSE /\ log = <<>>
    /\ err = "none" /\ outcome = "none" /\ callbacks = 0

\* the state before Doxxo.parse(code, type) is called
InitParse ==
    /\ code \in Codes
    /\ type \in Types
    /\ parsed = Unset
    /\ page = NoPage
    /\ LegacyIdle
    /\ DocumentIdle

\* what the run of the entry point keeps
documentVars ==
    <<paths, recursive, index, assets, pc, entries, sections, sources, rd, widx,
      dirs, files, assetsCopied, log, err, outcome, callbacks>>

\* sections = Doxxo.parse(code, type)
Parse ==
    /\ parsed = Unset
    /\ parsed' = parse(code, type)
    /\ UNCHANGED <<code, type, page, legacyVars, documentVars>>

\* format(source), for a source object that carries the sections parsed
Format ==
    /\ parsed.kind = "array"
    /\ page = NoPage
    /\ \E name \in {F_a_js, D_s \o <<"/">> \o F_b_js} : page' = format(name, parsed.items)
    /\ UNCHANGED <<code, type, parsed, legacyVars, documentVars>>

NextParse == Parse \/ Format

SpecParse == InitParse /\ [][NextParse]_vars

(***************************************************************************)
(* The legacy document(options, callback): the sources are sorted, the     *)
(* output directory is made, the files are read, formatted and written one *)
(* after the other, and the assets are copied at the end.                  *)
(***************************************************************************)

\* the UTF-16 code unit of a character of a source name
charCode(c) ==
    CASE c = "." -> 46 [] c = "a" -> 97 [] c = "b" -> 98 [] c = "j" -> 106
      [] c = "n" -> 110 [] c = "s" -> 115 [] OTHER -> 0

RECURSIVE Before(_, _)
\* whether string a sorts before string b
Before(a, b) ==
    IF a = <<>> THEN b # <<>>
    ELSE IF b = <<>> THEN FALSE
    ELSE IF a[1] # b[1] THEN charCode(a[1]) < charCode(b[1])
    ELSE Before(Tail(a), Tail(b))

RECURSIVE sort(_)
\* Array.prototype.sort() on strings
sort(list) ==
    IF list = <<>> THEN <<>>
    ELSE LET m == CHOOSE i \in 1..Len(list) : \A j \in 1..Len(list) : ~Before(list[j], list[i])
         IN  <<list[m]>> \o sort([k \in 1..(Len(list) - 1) |->
                                    IF k < m THEN list[k] ELSE list[k + 1]])

\* the state before document(options, callback) is called
InitLegacy ==
    /\ args \in SeqsUpTo({F_a_js, F_b_js, F_n_js}, MaxPaths) \ {<<>>}
    /\ queue = <<>> /\ source = <<>> /\ lpc = "start" /\ written = <<>>
    /\ calls = <<>> /\ failure = "none" /\ uncaught = "none"
    /\ ParseIdle
    /\ DocumentIdle

\* callback(error), or callback() when e is "null"
Callback(e) ==
    /\ calls' = Append(calls, e)
    /\ failure' = IF failure = "none" /\ e # "null" THEN e ELSE failure
    /\ lpc' = "done"

\* document(options, callback): configure sorts the sources, fs.mkdirs is called
Document ==
    /\ lpc = "start"
    /\ queue' = sort(args)
    /\ lpc' = "mkdirs"
    /\ UNCHANGED <<args, source, written, calls, failure, uncaught, parseVars, documentVars>>

\* nextFile(): files.shift() and fs.readFile(source, ...)
nextFile ==
    /\ source' = Head(queue)
    /\ queue' = Tail(queue)
    /\ lpc' = "read"

\* the callback of fs.mkdirs, which takes no error argument: files is the
\* list of sources and nextFile() is called
Mkdirs ==
    /\ lpc = "mkdirs"
    /\ \E ok \in BOOLEAN : failure' = IF ok THEN failure ELSE "mkdirs"
    /\ nextFile
    /\ UNCHANGED <<args, written, calls, uncaught, parseVars, documentVars>>

\* complete(): copyAsset(config.css, ...), then copyAsset(config.public, callback)
complete ==
    \E css, public \in BOOLEAN :
        IF css THEN lpc' = "css" /\ UNCHANGED <<calls, failure>>
        ELSE IF public THEN lpc' = "public" /\ UNCHANGED <<calls, failure>>
        ELSE Callback("null")

\* the callback of fs.readFile: parse, format and write (fs.writeFileSync),
\* then the next file or complete()
ReadFile ==
    /\ lpc = "read"
    /\ \E r \in {"error", "writeThrows", "ok"} :
        IF r = "error"
        THEN Callback("read") /\ UNCHANGED <<queue, source, written, uncaught>>
        ELSE IF r = "writeThrows"
        THEN /\ uncaught' = "write"
             /\ failure' = IF failure = "none" THEN "write" ELSE failure
             /\ lpc' = "done"
             /\ UNCHANGED <<queue, source, written, calls>>
        ELSE /\ written' = Append(written, source)
             /\ IF queue # <<>> THEN nextFile /\ UNCHANGED <<calls, failure>>
                ELSE complete /\ UNCHANGED <<queue, source>>
             /\ UNCHANGED uncaught
    /\ UNCHANGED <<args, parseVars, documentVars>>

\* the callback of fs.copy for the style sheet
CopyCss ==
    /\ lpc = "css"
    /\ \E ok, public \in BOOLEAN :
        IF ~ok THEN Callback("css")
        ELSE IF public THEN lpc' = "public" /\ UNCHANGED <<calls, failure>>
        ELSE Callback("null")
    /\ UNCHANGED <<args, queue, source, written, uncaught, parseVars, documentVars>>

\* the callback of fs.copy for the public folder: the callback itself
CopyPublic ==
    /\ lpc = "public"
    /\ \E ok \in BOOLEAN : Callback(IF ok THEN "null" ELSE "public")
    /\ UNCHANGED <<args, queue, source, written, uncaught, parseVars, documentVars>>

NextLegacy == Document \/ Mkdirs \/ ReadFile \/ CopyCss \/ CopyPublic

SpecLegacy == InitLegacy /\ [][NextLegacy]_vars

(***************************************************************************)
(* Properties                                                              *)
(***************************************************************************)

\* the constructor has returned an object
Constructed == pc # "start" /\ entries # <<>>

\* the filter has settled every source
Filtered == Constructed /\ \A i \in 1..Len(rd) : rd[i] \in {"kept", "dropped"}

NothingCreated == dirs = {} /\ files = {} /\ ~assetsCopied

AllDropped == Constructed /\ \A i \in 1..Len(rd) : rd[i] = "dropped"

\* C1: when every resolved entry is dropped by the filter (unsupported type or
\* no sections), the run completes successfully, and the output directory is
\* not created, the assets are not copied and no file is written.
C1_EmptyFilteredListDoesNothing ==
    AllDropped =>
        /\ NothingCreated
        /\ widx = 0
        /\ pc \in {"filter", "end"}
        /\ pc = "end" => (outcome = "fulfilled" /\ err = "none" /\ callbacks = 1)

\* C1 witness: a finished run in which one entry was dropped for its type and
\* another for its empty sections
C1_Witness ==
    /\ AllDropped
    /\ outcome = "fulfilled"
    /\ \E i \in 1..Len(rd) : sections[i] = Unset
    /\ \E i \in 1..Len(rd) : sections[i] = ArrayVal(<<>>)

\* an input path that does not exist
HasMissingPath ==
    \E k \in 1..Len(paths) : statSync(resolve(normalize(paths[k]))) = "none"

\* C2 (as stated): if an input path does not exist, the run fails with a
\* not-found error and the output directory and files are never created.
C2_MissingPathFailsNotFound ==
    (HasMissingPath /\ pc # "start") =>
        (outcome = "thrown" /\ err = "ENOENT" /\ NothingCreated)

\* C2 (amended): if an input path does not exist, the run fails in the
\* constructor, with the not-found error unless the layout or the template
\* is rejected first, and the output directory and files are never created.
C2_MissingPathFails ==
    (HasMissingPath /\ pc # "start") =>
        /\ outcome = "thrown"
        /\ err \in {"ENOENT", "InvalidLayout", "MissingTemplate"}
        /\ pc = "end"
        /\ NothingCreated
        /\ entries = <<>>

\* C2 witness: a run that failed with the not-found error although another
\* of its paths exists
C2_Witness ==
    /\ HasMissingPath
    /\ err = "ENOENT"
    /\ \E k \in 1..Len(paths) : statSync(resolve(normalize(paths[k]))) = "file"

\* the last position of sources whose entry has the output path of position a
LastWithOut(a) ==
    CHOOSE b \in 1..Len(sources) :
        /\ entries[sources[b]].out = entries[sources[a]].out
        /\ \A c \in 1..Len(sources) :
              entries[sources[c]].out = entries[sources[a]].out => c <= b

\* C3: the entries are written one at a time in list order, each write
\* completing before the next begins, so that once a run has ended without
\* a file-system failure every entry's output path holds the page of the
\* last entry of the list with that path.
C3_WritesInOrderLastWins ==
    (pc = "end" /\ Filtered /\ outcome # "thrown" /\ err \notin {"EIO", "EACCES"}) =>
        \A a \in 1..Len(sources) :
            [path |-> entries[sources[a]].out, from |-> sources[LastWithOut(a)]] \in files

\* the asset step has finished
AssetStepDone == \E k \in 1..Len(log) : log[k] = <<"copied">>

\* C4: a run goes through its phases in order: the sources are parsed and
\* filtered, then the output root is created, then (when assets are enabled)
\* the assets are copied, and only then is an entry written.
C4_PhaseOrder ==
    /\ pc \in {"mkroot", "stat", "cpr", "wmkdir", "wfile"} =>
          (Filtered /\ sources = SelectSeq([i \in 1..Len(rd) |-> i], LAMBDA i : rd[i] = "kept"))
    /\ (pc \in {"stat", "cpr", "wmkdir", "wfile"} \/ widx > 0) => output \in dirs
    /\ (dirs # {} \/ files # {} \/ assetsCopied \/ AssetStepDone) => (Filtered /\ output \in dirs)
    /\ widx > 0 => (assets <=> AssetStepDone)
    /\ (dirs \ {output} # {} \/ files # {}) => widx > 0
    /\ ~assets => ~assetsCopied

\* C4 witness: the first entry is being written after the assets were copied
C4_Witness == pc = "wfile" /\ widx = 1 /\ assets /\ assetsCopied /\ output \in dirs

\* the source types the tool documents: .js and .md
Registered(ext) == ext \in {<<".">> \o T_js, <<".">> \o T_md}

\* C5: the filter removes an entry exactly when its extension has no
\* registered parser or its parse result is an empty section sequence, and
\* keeps every other entry.
C5_DroppedIffUnsupportedOrEmpty ==
    \A i \in 1..Len(rd) :
        rd[i] \in {"kept", "dropped"} =>
            (rd[i] = "dropped" <=>
                (\/ ~Registered(extname(entries[i].full))
                 \/ parse(Content(entries[i].full), extname(entries[i].full)) = ArrayVal(<<>>)))

C7_IndexEntry ==
    Constructed =>
        /\ \A i \in 1..Len(entries) :
              IF index # <<>> /\ entries[i].full = index[1]
              THEN /\ entries[i].isIndex
                   /\ entries[i].out = output \o <<"/", "i", "n", "d", "e", "x">> \o html
              ELSE ~entries[i].isIndex
        /\ Cardinality({i \in 1..Len(entries) : entries[i].isIndex}) <= 1

\* C7 witness: the index file resolved together with another file
C7_Witness ==
    /\ Constructed
    /\ Len(entries) > 1
    /\ \E i \in 1..Len(entries) : entries[i].isIndex /\ entries[i].name = F_r_md

\* s without its extension
StripExt(s) == Take(s, Len(s) - Len(extname(s)))

\* C8: a single resolved file that is not the index has the output path
\* output/<base name without extension>.html.
C8_SingleFileOutput ==
    (Constructed /\ Len(entries) = 1 /\ ~entries[1].isIndex) =>
        entries[1].out = output \o <<"/">> \o StripExt(basename(entries[1].full)) \o html

\* the one input directory of a recursive run without an index
SingleDirRun ==
    /\ Constructed /\ Len(paths) = 1 /\ recursive /\ index = <<>>
    /\ statSync(resolve(paths[1])) = "dir"

\* the path of entry i relative to the input directory
RelPath(i) == Drop(entries[i].full, Len(resolve(paths[1])) + 1)

\* C9: for the files found under a single input directory (recursive, no
\* index), two files have the same output path only if their paths relative
\* to the directory are equal up to the extension.
C9_OutputPathsInjective ==
    SingleDirRun =>
        \A i, j \in 1..Len(entries) :
            entries[i].out = entries[j].out => StripExt(RelPath(i)) = StripExt(RelPath(j))

\* the names one argument alone gives
NamesBy(k) == cleanPaths(<<paths[k]>>, recursive, <<>>, <<>>).memo

\* the arguments that reach the file fp
Reaching(fp) ==
    {k \in 1..Len(paths) : \E m \in 1..Len(NamesBy(k)) : NamesBy(k)[m].full = fp}

NameBy(k, fp) ==
    LET m == CHOOSE m \in 1..Len(NamesBy(k)) : NamesBy(k)[m].full = fp
    IN  NamesBy(k)[m].name

\* C10: after resolution the full paths of the entries are pairwise
\* distinct; a file reached through several arguments is one entry, named
\* by the last argument that reaches it, and no error is raised for it.
C10_UniqueFullPaths ==
    Constructed =>
        /\ err = "none"
        /\ \A i, j \in 1..Len(entries) : entries[i].full = entries[j].full => i = j
        /\ \A i \in 1..Len(entries) :
              LET K == Reaching(entries[i].full)
              IN  /\ K # {}
                  /\ entries[i].name = NameBy(CHOOSE k \in K : \A l \in K : l <= k,
                                              entries[i].full)
        /\ \A k \in 1..Len(paths) : \A m \in 1..Len(NamesBy(k)) :
              \E i \in 1..Len(entries) : entries[i].full = NamesBy(k)[m].full

\* C10 witness: a file reached by two arguments that give it different names
C10_Witness ==
    /\ Constructed
    /\ \E i \in 1..Len(entries) :
          /\ Reaching(entries[i].full) = {1, 2}
          /\ NameBy(1, entries[i].full) # NameBy(2, entries[i].full)

\* whether file f lies below directory d, at any depth
Below(f, d) == Len(f) > Len(d) + 1 /\ Take(f, Len(d) + 1) = d \o <<"/">>

\* the files argument k is expected to resolve: the file itself, or for a
\* directory its own files and, when recursive, all files below it
ExpectedOf(k) ==
    LET fp == resolve(normalize(paths[k]))
    IN  IF statSync(fp) = "file" THEN {fp}
        ELSE {f \in FsFiles : Below(f, fp) /\ (recursive \/ dirname(f) = fp)}

\* C11: a directory given as an input is traversed one level whether or not
\* recursive is set, and a sub-directory met during the traversal is entered
\* exactly when recursive is set: the resolved files are the input files, the
\* files directly in the input directories and, only when recursive, the
\* files nested deeper.
C11_OneLevelThenFlag ==
    Constructed =>
        {entries[i].full : i \in 1..Len(entries)} = UNION {ExpectedOf(k) : k \in 1..Len(paths)}

\* C11 witness: a directory with a sub-directory resolved without recursive:
\* its own files are entries and the nested file is not
C11_Witness ==
    /\ Constructed /\ ~recursive /\ paths = <<D_d>>
    /\ \E i \in 1..Len(entries) : entries[i].full = cwd \o <<"/">> \o D_d \o <<"/">> \o F_b_js
    /\ \A i \in 1..Len(entries) : dirname(entries[i].full) = cwd \o <<"/">> \o D_d

\* the display name the rule gives file fp through argument k: the base name
\* for a file argument, the path relative to the directory for a directory
RuleName(k, fp) ==
    LET a == resolve(normalize(paths[k]))
    IN  IF a = fp THEN basename(fp) ELSE Drop(fp, Len(a) + 1)

\* C12: every entry's display name follows one rule: the base name for a
\* file given directly, the path relative to the given directory for a file
\* found by traversal at any depth; and a file given only directly gets an
\* output file directly in the output root.
C12_DisplayNameRule ==
    Constructed =>
        \A i \in 1..Len(entries) :
            LET K == Reaching(entries[i].full)
            IN  /\ \E k \in K : entries[i].name = RuleName(k, entries[i].full)
                /\ (\A k \in K : resolve(normalize(paths[k])) = entries[i].full)
                      => dirname(entries[i].out) = output

\* Doxxo.parse has returned
Parsed == parsed # Unset

JsTags == {T_js, <<".">> \o T_js}

MdTags == {T_md, <<".">> \o T_md}

\* C13: for every code, parse(code, "md") and parse(code, ".md") return
\* exactly one section, whose docsText is the code and whose codeText is empty.
C13_MdOneSection ==
    (Parsed /\ type \in MdTags) =>
        parsed = ArrayVal(<<[docsText |-> code, codeText |-> <<>>]>>)

\* C13 witness: a markdown text of several lines with white space at its
\* start, returned as it is
C13_Witness ==
    /\ Parsed /\ type = <<".">> \o T_md
    /\ Len(code) > 3 /\ code[1] = " " /\ \E i \in 1..Len(code) : code[i] = NL
    /\ parsed.items[1].docsText = code

\* the text holds no block comment: no opening mark with a closing mark after it
NoBlockComment(s) ==
    ~\E i, j \in 1..Len(s) :
        /\ i + 2 <= j /\ j < Len(s)
        /\ s[i] = "/" /\ s[i + 1] = "*" /\ s[j] = "*" /\ s[j + 1] = "/"

\* C14 (as stated): for every supported type tag (js, md, with or without
\* the dot), parse of a text without a documentation comment returns an
\* empty section sequence, so the pipeline drops the file.
C14_NoCommentsEmpty ==
    (Parsed /\ type \in JsTags \cup MdTags /\ NoBlockComment(code)) =>
        (parsed = ArrayVal(<<>>) /\ ~keepSource(parsed))

\* C14 (amended): for the type tags js and .js, parse of a text without a
\* block comment returns an empty section sequence, so the pipeline drops the
\* file; for md and .md it returns one section and the pipeline keeps the file.
C14_JsNoCommentsEmpty ==
    /\ (Parsed /\ type \in JsTags /\ NoBlockComment(code)) =>
          (parsed = ArrayVal(<<>>) /\ ~keepSource(parsed))
    /\ (Parsed /\ type \in MdTags) => (Len(parsed.items) = 1 /\ keepSource(parsed))

\* C14 witness: a JavaScript text with code and an unclosed comment mark,
\* parsed to no section
C14_Witness ==
    /\ Parsed /\ type = T_js /\ parsed = ArrayVal(<<>>)
    /\ CharAt(code, 1) = "x"
    /\ \E i \in 1..Len(code) : code[i] = "/" /\ CharAt(code, i + 1) = "*"

\* the lines of the text with their leading tabs turned into spaces
UntabbedLines(s) == LET ls == Split(s, NL) IN [k \in 1..Len(ls) |-> untab(ls[k])]

\* the codeText values of the sections, in order, each with the leading tabs
\* of its lines turned into spaces (the leading section keeps its tabs)
CodeTexts(secs) ==
    [i \in 1..Len(secs) |-> JoinWith(UntabbedLines(secs[i].codeText), NL)]

RECURSIVE InOrder(_, _, _)
\* whether the texts are, in order, runs of consecutive lines of ls that lie
\* at or after line from and do not overlap (an empty text takes no line)
InOrder(texts, ls, from) ==
    IF texts = <<>> THEN TRUE
    ELSE IF Head(texts) = <<>> THEN InOrder(Tail(texts), ls, from)
    ELSE LET runs == {r \in (from..Len(ls)) \X (from..Len(ls)) :
                         r[1] <= r[2] /\ JoinWith(SubSeq(ls, r[1], r[2]), NL) = Head(texts)}
         IN  /\ runs # {}
             /\ LET r == CHOOSE r \in runs : \A q \in runs : r[2] <= q[2]
                IN  InOrder(Tail(texts), ls, r[2] + 1)

FirstOpen(s) ==
    CHOOSE i \in 1..Len(s) :
        /\ s[i] = "/" /\ CharAt(s, i + 1) = "*"
        /\ \A j \in 1..(i - 1) : ~(s[j] = "/" /\ s[j + 1] = "*")

\* the lines of s before the line its first comment starts on
LeadingText(s) ==
    LET before == Cardinality({j \in 1..(FirstOpen(s) - 1) : s[j] = NL})
    IN  JoinWith(SubSeq(Split(s, NL), 1, before), NL)

\* C20: the code-comment splitter emits a leading section (empty docsText,
\* codeText the lines before the first comment) exactly when those lines
\* hold something other than white space; after it comes one section per
\* comment, so a text that begins with its first comment gives exactly one
\* section per comment.
C20_LeadingSectionIffContent ==
    (Parsed /\ type \in JsTags /\ parsed.items # <<>>) =>
        LET comments == parseComments(code)
            lead     == LeadingText(code)
            hasLead  == \E i \in 1..Len(lead) : ~IsSpace(lead[i])
            rest     == IF hasLead THEN Tail(parsed.items) ELSE parsed.items
        IN  /\ hasLead => parsed.items[1] = [docsText |-> <<>>, codeText |-> lead]
            /\ Len(rest) = Len(comments)
            /\ \A i \in 1..Len(rest) : rest[i].docsText = comments[i].full
            /\ FirstOpen(code) = 1 => Len(parsed.items) = Len(comments)

\* C20 witness: a blank line before the first comment gives no leading section
C20_Witness ==
    /\ Parsed /\ type = T_js /\ CharAt(code, 1) = " " /\ CharAt(code, 2) = NL
    /\ CharAt(code, 3) = "/" /\ CharAt(code, 4) = "*"
    /\ Len(parsed.items) = 1 /\ parsed.items[1].docsText = <<"D">>

\* C18: Doxxo.parse(code, type) returns an empty section sequence for every
\* type tag other than js and md (with or without the dot), whatever the code.
C18_UnknownTypeEmpty ==
    (Parsed /\ type \notin JsTags \cup MdTags) => parsed = ArrayVal(<<>>)

\* format() has handed its data to the template
Formatted == page # NoPage

\* the positions of the sections with a non-empty docsText
WithDocs(secs) == {i \in 1..Len(secs) : secs[i].docsText # <<>>}

C16_CallbackOnceEveryFailure ==
    /\ callbacks <= 1
    /\ pc = "end" =>
          /\ outcome \in {"fulfilled", "rejected"}
          /\ callbacks = 1
          /\ (outcome = "rejected") <=> (err # "none")
    /\ pc # "end" => (callbacks = 0 /\ outcome = "none")

\* whether p is list up to some position
IsPrefix(p, list) == Len(p) <= Len(list) /\ p = SubSeq(list, 1, Len(p))

\* C19: the legacy document(options, callback) processes the sources one at
\* a time in sorted order and calls the callback exactly once when it is
\* done; when a step fails (making the output directory, a read, a write, a
\* copy) the callback is called with that error and no further file is
\* processed.
C19_LegacyCallbackOnError ==
    /\ Len(calls) <= 1
    /\ lpc # "start" => IsPrefix(written, sort(args))
    /\ lpc = "done" => calls = <<IF failure = "none" THEN "null" ELSE failure>>
    /\ (lpc = "done" /\ failure = "none") => written = sort(args)
    /\ failure # "none" => lpc = "done"

\* the codeText values of the sections as they are, in order
RawCodeTexts(secs) == [i \in 1..Len(secs) |-> secs[i].codeText]

\* C21: in every section of the code-comment splitter, the leading section
\* included, each codeText line is a source line with its leading run of n
\* tabs replaced by 4*n spaces (other tabs are left alone), so no codeText
\* line begins with a tab.
C21_LeadingTabsNormalized ==
    (Parsed /\ type \in JsTags) =>
        /\ InOrder(RawCodeTexts(parsed.items), UntabbedLines(code), 1)
        /\ \A i \in 1..Len(parsed.items) :
              \A l \in 1..Len(Split(parsed.items[i].codeText, NL)) :
                  CharAt(Split(parsed.items[i].codeText, NL)[l], 1) # "\t"

\* C22: every entry handed to the write step has a non-empty sequence of
\* sections, assigned once by parseSources before the write phase started,
\* and no entry dropped by the filter is rendered or written.
C22_WrittenEntriesParsedOnce ==
    /\ [](widx > 0 =>
            \A a \in 1..Len(sources) :
                /\ rd[sources[a]] = "kept"
                /\ sections[sources[a]].kind = "array"
                /\ sections[sources[a]].items # <<>>)
    /\ [](\A f \in files : rd[f.from] = "kept")
    /\ [][\A i \in 1..Len(sections) :
              (sections[i] # Unset \/ widx > 0) => sections'[i] = sections[i]]_vars

\* the entries that survive the filter, in the order of the resolved list
Survivors ==
    SelectSeq([i \in 1..Len(entries) |-> i],
              LAMBDA i : /\ supported(i)
                         /\ keepSource(parse(Content(entries[i].full),
                                             extname(entries[i].full))))

\* C23: parseSources starts the reads of all the entries at once, and in
\* whatever order they complete the filtered list is the same: the surviving
\* entries in the order of the resolved list; this.sources is replaced by it
\* only after every read has completed.
C23_FilterOrderIndependent ==
    /\ (pc = "filter" /\ \E i \in 1..Len(rd) : rd[i] # "idle") =>
          \A i \in 1..Len(rd) : rd[i] # "idle"
    /\ (Constructed /\ sources # [i \in 1..Len(entries) |-> i]) =>
          (Filtered /\ pc # "filter" /\ sources = Survivors)
    /\ pc \in {"mkroot", "stat", "cpr", "wmkdir", "wfile"} => sources = Survivors

\* C23 witness: the read of the second entry has completed and kept it while
\* the read of the first is still under way, and this.sources is still the
\* resolved list
C23_Witness ==
    /\ pc = "filter" /\ Len(rd) >= 2
    /\ rd[1] = "reading" /\ rd[2] = "kept"
    /\ sources = [i \in 1..Len(entries) |-> i]
    /\ Survivors # sources

\* the number of entries the write step has logged
Wrote == Len(SelectSeq(log, LAMBDA l : l[1] = "wrote"))

\* C24: when no file-system operation fails and an entry survives the
\* filter, document() completes successfully, and by then the write step has
\* been done once for every entry of the filtered list: a file exists at its
\* output path.
C24_CompletesWithEveryFileWritten ==
    (pc = "end" /\ Filtered /\ sources # <<>> /\ err \notin {"EIO", "EACCES"}) =>
        /\ outcome = "fulfilled" /\ err = "none"
        /\ Wrote = Len(sources)
        /\ \A a \in 1..Len(sources) : \E f \in files : f.path = entries[sources[a]].out

\* C25: when an index file is designated, no entry other than the index
\* entry has the output path output/index.html, so the index page and the
\* page of another input (a file named index.js, say) never replace each other.
C25_IndexPathReserved ==
    (Constructed /\ index # <<>>) =>
        \A i \in 1..Len(entries) :
            entries[i].out = output \o <<"/", "i", "n", "d", "e", "x">> \o html
                => entries[i].isIndex

====
